---------------------------- MODULE Spec2Model ----------------------------
(***************************************************************************)
(* A model of the sharded LRU cache (ShardedCache: Put, Get, evictOne,     *)
(* EvictBatch, CheckMemory) as a state machine.                            *)
(*                                                                         *)
(* Strings are sequences of byte values.  The inputs are ASCII, so that a  *)
(* string's byte length (len) is its number of elements and the runes the  *)
(* partitioner ranges over are the bytes themselves.                       *)
(*                                                                         *)
(* The entry's timestamp field is written by Put and Get and read by       *)
(* nothing; it is left out of the state.                                   *)
(***************************************************************************)
EXTENDS Integers, Sequences, FiniteSets, TLC

(***************************************************************************)
(* Program constants.                                                      *)
(***************************************************************************)
NumShards == 32

MaxKeySize == 256

MaxValueSize == 256

EvictionBatchSize == 100

EntryOverhead == 64

\* MaxMemoryBytes = 1.5 * 1024 * 1024 * 1024
MaxMemoryBytes == 1610612736

\* MemoryThreshold = 0.7, as the fraction ThresholdNum / ThresholdDen
ThresholdNum == 7

ThresholdDen == 10

(***************************************************************************)
(* Bounds of the model.                                                    *)
(***************************************************************************)
\* request goroutines running Put and Get side by side
NumWorkers == 2

\* Put and Get calls made in one run, all workers together
MaxCalls == 2

\* ticks of the memory monitor in one run
MaxTicks == 1

\* the longest key of the partitioner's exhaustive inputs
MaxHashLen == 3

\* the largest capacity a Cache of main.go is created with
MaxCapacity == 2

\* Put and Get calls of main.go's Cache made in one run
MaxCacheCalls == 5

(***************************************************************************)
(* Machine integers.  int is 64 bits wide; the model checker's integers    *)
(* are narrower, so a 64-bit word is four 16-bit limbs, least significant  *)
(* first, and arithmetic wraps modulo 2^64 as the machine's does.          *)
(***************************************************************************)
LimbBase == 65536

WordOf(n) == <<n, 0, 0, 0>>

\* 31*h + c modulo 2^64
MulAdd31(h, c) ==
    LET t1 == 31 * h[1] + c
        t2 == 31 * h[2] + (t1 \div LimbBase)
        t3 == 31 * h[3] + (t2 \div LimbBase)
        t4 == 31 * h[4] + (t3 \div LimbBase)
    IN  <<t1 % LimbBase, t2 % LimbBase, t3 % LimbBase, t4 % LimbBase>>

\* the sign bit of a two's complement word
IsNegative(h) == h[4] >= LimbBase \div 2

\* -h modulo 2^64 (two's complement: the most negative word is its own negation)
Negate(h) ==
    LET t1 == (LimbBase - 1 - h[1]) + 1
        t2 == (LimbBase - 1 - h[2]) + (t1 \div LimbBase)
        t3 == (LimbBase - 1 - h[3]) + (t2 \div LimbBase)
        t4 == (LimbBase - 1 - h[4]) + (t3 \div LimbBase)
    IN  <<t1 % LimbBase, t2 % LimbBase, t3 % LimbBase, t4 % LimbBase>>

\* the word read as an unsigned number, modulo n
UnsignedMod(h, n) ==
    LET r4 == h[4] % n
        r3 == (r4 * LimbBase + h[3]) % n
        r2 == (r3 * LimbBase + h[2]) % n
    IN  (r2 * LimbBase + h[1]) % n

\* h % n as the machine computes it: the remainder takes the dividend's sign
Remainder(h, n) ==
    IF IsNegative(h) THEN 0 - UnsignedMod(Negate(h), n) ELSE UnsignedMod(h, n)

(***************************************************************************)
(* The partitioner.                                                        *)
(***************************************************************************)
\* the loop of getShard over key[lo..hi], entered with hash:
\* hash = 31*hash + int(char) for each char in turn.  The range is run as its
\* two halves one after the other, which keeps the evaluation shallow for the
\* longest keys (the test on left is always true: it makes the first half's
\* word computed before the second half starts).
RECURSIVE RollingHash(_, _, _, _)
RollingHash(hash, key, lo, hi) ==
    IF lo > hi THEN hash
    ELSE IF lo = hi THEN MulAdd31(hash, key[lo])
    ELSE LET mid == (lo + hi) \div 2
             left == RollingHash(hash, key, lo, mid)
         IN  IF left[1] >= 0 THEN RollingHash(left, key, mid + 1, hi) ELSE left

\* the rolling hash with its sign left as it is
RawHash(key) == RollingHash(WordOf(0), key, 1, Len(key))

AbsHash(key) ==
    LET hash == RollingHash(WordOf(0), key, 1, Len(key))
    IN  IF IsNegative(hash) THEN Negate(hash) ELSE hash

\* the index getShard takes its shard from
shardIndex(key) == Remainder(AbsHash(key), NumShards)

(***************************************************************************)
(* Threads: the request goroutines and the monitor's goroutine.            *)
(***************************************************************************)
Workers == 1..NumWorkers

Monitor == NumWorkers + 1

Threads == Workers \cup {Monitor}

Shards == 0..(NumShards - 1)

(***************************************************************************)
(* Strings.                                                                *)
(***************************************************************************)
Str(n, c) == [i \in 1..n |-> c]

\* len(s): the inputs are ASCII, one byte per element
len(s) == Len(s)

\* the nil *list.Element
Nil == 0

VARIABLES
    items,      \* items[s]: shard s's map from key to list element
    evictList,  \* evictList[s]: shard s's list, front first, as element ids
    entries,    \* the heap: the CacheEntry (value, size) each live element holds
    shardSize,  \* shardSize[s]: shard s's size field
    totalSize,  \* ShardedCache.totalSize
    lock,       \* lock[s]: shard s's RWMutex: the writer and the readers holding it
    sizeLock,   \* ShardedCache.sizeLock: the threads holding it (at most one)
    pc,         \* pc[t]: where thread t stands in the call it runs
    frame,      \* frame[t]: the locals and results of worker t's call
    mon,        \* the locals of the monitor's CheckMemory and EvictBatch
    stamps,     \* stamps[s]: shard s's live elements by their entries' timestamp,
                \* latest first (time.Now() never goes back: only the order counts)
    calls,      \* Put and Get calls made so far
    ticks,      \* monitor ticks so far
    lastPut,    \* history: lastPut[k] is the value of the latest Put of k that
                \* has returned success, while no later Put of k and no eviction
                \* of k has taken effect (k is not in the domain otherwise)
    lin,        \* history: the sequential caches the calls made and the answers
                \* given so far are consistent with (used when lin.on)
    probe,      \* a key handed to the partitioner and the indexes it returned
    batch,      \* history of the EvictBatch call under way: the shards that
                \* held entries when it began, the entries it removed from each
                \* shard, their sizes' sum, and what it took from totalSize
    cache,      \* main.go, Cache.cache: the index, from key to list element
    lruList,    \* main.go, Cache.lruList: the list's len and its elements'
                \* next and prev pointers (the root's included)
    cell,       \* main.go: the CacheEntry (Key, Value) each list element holds
    capacity,   \* main.go, Cache.capacity
    mu,         \* main.go, Cache.mu: the writer and the readers holding it
    gpc,        \* main.go: gpc[g] is where goroutine g stands in its call
    gframe,     \* main.go: gframe[g] holds the locals of goroutine g's call
    gcalls,     \* main.go: Put and Get calls of the Cache made so far
    recency     \* history: the stored keys of the Cache by their last Put or
                \* Get, latest first

\* the state of main.go's Cache and of the goroutines that call it
cacheVars == <<cache, lruList, cell, capacity, mu, gpc, gframe, gcalls, recency>>

\* the state of the ShardedCache, its callers and its monitor
shardedVars == <<items, evictList, entries, shardSize, totalSize, lock, sizeLock,
                 pc, frame, mon, stamps, calls, ticks, lastPut, batch, lin, probe>>

vars == <<items, evictList, entries, shardSize, totalSize, lock, sizeLock,
          pc, frame, mon, stamps, calls, ticks, lastPut, batch, lin, probe,
          cache, lruList, cell, capacity, mu, gpc, gframe, gcalls, recency>>

(***************************************************************************)
(* container/list, as far as the cache uses it.                            *)
(***************************************************************************)
Elems(list) == {list[i] : i \in 1..Len(list)}

Without(list, e) == SelectSeq(list, LAMBDA x : x # e)

PushFront(list, e) == <<e>> \o list

\* MoveToFront does nothing for an element that is not (or no longer) in the list
\* a promotion that pushes the element again without unlinking it
PushAgain(list, e) == <<e>> \o list

MoveToFront(list, e) ==
    IF e \notin Elems(list) THEN list ELSE <<e>> \o Without(list, e)

Back(list) == IF Len(list) = 0 THEN Nil ELSE list[Len(list)]

Remove(list, e) == Without(list, e)

(***************************************************************************)
(* The heap.  An element and the CacheEntry it points to are allocated     *)
(* together and are one id here; an id is free again once neither a shard  *)
(* nor a running call refers to it (garbage collection).                   *)
(***************************************************************************)
NewElement(heap) ==
    CHOOSE e \in 1..(Cardinality(DOMAIN heap) + 1) :
        /\ e \notin DOMAIN heap
        /\ \A d \in 1..(e - 1) : d \in DOMAIN heap

Reachable(its, lists, frames) ==
    UNION {Elems(lists[s]) : s \in Shards}
        \cup UNION {{its[s][k] : k \in DOMAIN its[s]} : s \in Shards}
        \cup ({frames[t].element : t \in Workers} \ {Nil})

Collect(heap, live) == [e \in (DOMAIN heap) \cap live |-> heap[e]]

\* entry.timestamp = time.Now() on element e: e becomes the latest of its shard
Touch(order, e) ==
    IF e \notin Elems(order) THEN order ELSE <<e>> \o Without(order, e)

(***************************************************************************)
(* sync.RWMutex.                                                           *)
(***************************************************************************)
Unlocked == [writer |-> {}, readers |-> {}]

CanLock(l) == l.writer = {} /\ l.readers = {}

CanRLock(l) == l.writer = {}

\* a release of the shared lock that releases nothing
StillReading(l, t) == l

\* RUnlock by thread t
RUnlock(l, t) == [l EXCEPT !.readers = @ \ {t}]

(***************************************************************************)
(* Put.                                                                    *)
(***************************************************************************)
getShard(key) == shardIndex(key)

\* a length check that turns away the maximum length itself
AtLeastMax(key, value) == len(key) >= MaxKeySize \/ len(value) >= MaxValueSize

TooLong(key, value) == len(key) > MaxKeySize \/ len(value) > MaxValueSize

EntrySize(key, value) == len(key) + len(value) + EntryOverhead

\* an overwrite accounted as if the entry were new
WholeSize(entrySize, oldSize) == entrySize

SizeChange(entrySize, oldSize) == entrySize - oldSize

\* an update that writes the value and leaves the recorded size
OverwriteValueOnly(entry, value, entrySize) == [entry EXCEPT !.value = value]

Overwrite(entry, value, entrySize) == [value |-> value, size |-> entrySize]

\* shard.items[key] = element
\* an insertion that leaves the index as it was
InsertNothing(m, key, element) == m

Insert(m, key, element) == (key :> element) @@ m

\* the new element and its entry on the heap
Allocate(heap, element, entry) == (element :> entry) @@ heap

\* history: Put(key, value) has returned success
Remember(h, key, value) == (key :> value) @@ h

\* history: a Put or an eviction of these keys has taken effect
Forget(h, keys) == [x \in (DOMAIN h) \ keys |-> h[x]]

\* a deletion that leaves the index as it was
DeleteNothing(m, keys) == m

Delete(m, keys) == [x \in (DOMAIN m) \ keys |-> m[x]]

NoFrame ==
    [op |-> "none", key |-> <<>>, value |-> <<>>, element |-> Nil, size |-> 0,
     found |-> FALSE, err |-> FALSE, expect |-> <<>>]

\* history: the Gets of a key in keys that are under way no longer follow the
\* Put they were called after
Disturb(frames, keys) ==
    [u \in Workers |->
        IF frames[u].op = "get" /\ frames[u].key \in keys
        THEN [frames[u] EXCEPT !.expect = <<>>] ELSE frames[u]]

(***************************************************************************)
(* History of calls and answers, kept against the sequential cache: a      *)
(* shard is a list of (key, value) pairs, most recently used first; Put    *)
(* writes the pair at the front, Get of a stored key moves its pair to the *)
(* front and answers its value, Get of another key answers a miss,         *)
(* evictOne removes the last pair.  lin.configs holds every pair of a      *)
(* sequential cache and, per worker, the standing of its call (<<>>: no    *)
(* call, <<"todo">>: called, not yet taken effect, else the answer it took *)
(* effect with) that some order of the effects so far explains.            *)
(***************************************************************************)
NoLin == [on |-> FALSE, configs |-> {}]

NoProbe == [key |-> <<>>, indexes |-> <<>>]

Position(list, key) == {i \in 1..Len(list) : list[i][1] = key}

Others(list, key) == SelectSeq(list, LAMBDA pair : pair[1] # key)

\* the call of worker t takes effect in c
Linearize(c, t, frames) ==
    LET f == frames[t]
        s == getShard(f.key)
        list == c.abs[s]
    IN  IF f.op = "put"
        THEN [abs |-> [c.abs EXCEPT ![s] = <<<<f.key, f.value>>>> \o Others(list, f.key)],
              ops |-> [c.ops EXCEPT ![t] = <<"ok">>]]
        ELSE IF Position(list, f.key) = {}
        THEN [c EXCEPT !.ops[t] = <<"miss">>]
        ELSE LET pair == list[CHOOSE i \in Position(list, f.key) : TRUE]
             IN  [abs |-> [c.abs EXCEPT ![s] = <<pair>> \o Others(list, f.key)],
                  ops |-> [c.ops EXCEPT ![t] = <<"hit", pair[2]>>]]

\* everything the calls that stand at "todo" can have done, in any order
RECURSIVE Close(_, _, _)
Close(configs, frames, n) ==
    IF n = 0 THEN configs
    ELSE Close(configs \cup UNION {{Linearize(c, t, frames) :
                                       t \in {u \in Workers : c.ops[u] = <<"todo">>}} :
                                   c \in configs},
               frames, n - 1)

Called(l, t) ==
    IF ~l.on THEN l
    ELSE [l EXCEPT !.configs = {[c EXCEPT !.ops[t] = <<"todo">>] : c \in @}]

Returned(l, t, frames, answer) ==
    IF ~l.on THEN l
    ELSE [l EXCEPT !.configs =
             {[c EXCEPT !.ops[t] = <<>>] :
                 c \in {d \in Close(@, frames, NumWorkers) : d.ops[t] = answer}}]

Evicted(l, s, deleted, frames) ==
    IF ~l.on THEN l
    ELSE [l EXCEPT !.configs =
             {[c EXCEPT !.abs[s] = SubSeq(@, 1, Len(@) - 1)] :
                 c \in {d \in Close(@, frames, NumWorkers) :
                           /\ Len(d.abs[s]) > 0
                           /\ deleted = {d.abs[s][Len(d.abs[s])][1]}}}]

\* the call, the length check and the entry size (lines 88-96)
PutCall(t, key, value) ==
    /\ pc[t] = "idle"
    /\ calls < MaxCalls
    /\ calls' = calls + 1
    /\ IF TooLong(key, value)
       THEN /\ pc' = [pc EXCEPT ![t] = "done"]
            /\ frame' = [frame EXCEPT ![t] =
                   [NoFrame EXCEPT !.op = "put", !.key = key, !.value = value,
                                   !.err = TRUE]]
            /\ lin' = lin
       ELSE /\ pc' = [pc EXCEPT ![t] = "put_lock"]
            /\ frame' = [frame EXCEPT ![t] =
                   [NoFrame EXCEPT !.op = "put", !.key = key, !.value = value,
                                   !.size = EntrySize(key, value)]]
            /\ lin' = Called(lin, t)
    /\ UNCHANGED <<items, evictList, entries, shardSize, totalSize, lock,
                   sizeLock, mon, stamps, ticks, lastPut,
                   batch, probe,
                   cacheVars>>

\* shard.lock.Lock() and the update of the shard under it (lines 97-113, 120-129)
PutLock(t) ==
    /\ pc[t] = "put_lock"
    /\ LET key == frame[t].key
           value == frame[t].value
           entrySize == frame[t].size
           s == getShard(key)
       IN  /\ s \in Shards
           /\ CanLock(lock[s])
           /\ lock' = [lock EXCEPT ![s].writer = {t}]
           /\ IF key \in DOMAIN items[s]
              THEN LET element == items[s][key]
                       sizeChange == SizeChange(entrySize, entries[element].size)
                   IN  /\ entries' = [entries EXCEPT ![element] =
                                         Overwrite(entries[element], value, entrySize)]
                       /\ stamps' = [stamps EXCEPT ![s] = Touch(@, element)]
                       /\ evictList' = [evictList EXCEPT ![s] = MoveToFront(@, element)]
                       /\ shardSize' = [shardSize EXCEPT ![s] = @ + sizeChange]
                       /\ frame' = [Disturb(frame, {key}) EXCEPT ![t].size = sizeChange]
                       /\ UNCHANGED items
              ELSE LET element == NewElement(entries)
                   IN  /\ entries' = Allocate(entries, element,
                                            [value |-> value, size |-> entrySize])
                       /\ stamps' = [stamps EXCEPT ![s] = <<element>> \o @]
                       /\ evictList' = [evictList EXCEPT ![s] = PushFront(@, element)]
                       /\ items' = [items EXCEPT ![s] = Insert(@, key, element)]
                       /\ shardSize' = [shardSize EXCEPT ![s] = @ + entrySize]
                       /\ frame' = Disturb(frame, {key})
           /\ lastPut' = Forget(lastPut, {key})
    /\ pc' = [pc EXCEPT ![t] = "put_sizelock"]
    /\ UNCHANGED <<totalSize, sizeLock, mon, calls, ticks, batch, lin, probe,
                   cacheVars>>

\* c.sizeLock.Lock() (lines 115, 131)
PutSizeLock(t) ==
    /\ pc[t] = "put_sizelock"
    /\ sizeLock = {}
    /\ sizeLock' = {t}
    /\ pc' = [pc EXCEPT ![t] = "put_total"]
    /\ UNCHANGED <<items, evictList, entries, shardSize, totalSize, lock,
                   frame, mon, stamps, calls, ticks, lastPut, batch,
                   lin, probe,
                   cacheVars>>

\* c.totalSize += ...; c.sizeLock.Unlock() (lines 116-117, 132-133)
PutTotal(t) ==
    /\ pc[t] = "put_total"
    /\ totalSize' = totalSize + frame[t].size
    /\ sizeLock' = {}
    /\ pc' = [pc EXCEPT ![t] = "put_unlock"]
    /\ UNCHANGED <<items, evictList, entries, shardSize, lock, frame, mon,
                   stamps, calls, ticks, lastPut, batch,
                   lin, probe,
                   cacheVars>>

\* the deferred shard.lock.Unlock() and return nil (lines 98, 136)
PutUnlock(t) ==
    /\ pc[t] = "put_unlock"
    /\ lock' = [lock EXCEPT ![getShard(frame[t].key)].writer = {}]
    /\ pc' = [pc EXCEPT ![t] = "done"]
    /\ lastPut' = Remember(lastPut, frame[t].key, frame[t].value)
    /\ lin' = Returned(lin, t, frame, <<"ok">>)
    /\ UNCHANGED <<items, evictList, entries, shardSize, totalSize, sizeLock,
                   frame, mon, stamps, calls, ticks, batch,
                   probe,
                   cacheVars>>

(***************************************************************************)
(* Get.                                                                    *)
(***************************************************************************)
\* the call (lines 140-141)
GetCall(t, key) ==
    /\ pc[t] = "idle"
    /\ calls < MaxCalls
    /\ calls' = calls + 1
    /\ pc' = [pc EXCEPT ![t] = "get_rlock"]
    /\ frame' = [frame EXCEPT ![t] =
           [NoFrame EXCEPT !.op = "get", !.key = key,
                           !.expect = IF key \in DOMAIN lastPut
                                      THEN <<lastPut[key]>> ELSE <<>>]]
    /\ lin' = Called(lin, t)
    /\ UNCHANGED <<items, evictList, entries, shardSize, totalSize, lock,
                   sizeLock, mon, stamps, ticks, lastPut,
                   batch, probe,
                   cacheVars>>

\* shard.lock.RLock() and the lookup under it (lines 142-147)
GetRLock(t) ==
    /\ pc[t] = "get_rlock"
    /\ LET key == frame[t].key
           s == getShard(key)
       IN  /\ s \in Shards
           /\ CanRLock(lock[s])
           /\ lock' = [lock EXCEPT ![s].readers = @ \cup {t}]
           /\ IF key \in DOMAIN items[s]
              THEN /\ frame' = [frame EXCEPT ![t].element = items[s][key]]
                   /\ pc' = [pc EXCEPT ![t] = "get_runlock"]
              ELSE /\ UNCHANGED frame
                   /\ pc' = [pc EXCEPT ![t] = "get_miss"]
    /\ UNCHANGED <<items, evictList, entries, shardSize, totalSize, sizeLock,
                   mon, stamps, calls, ticks, lastPut, batch,
                   lin, probe,
                   cacheVars>>

\* the key is absent: return "", false, and the deferred RUnlock (lines 143, 165)
GetMiss(t) ==
    /\ pc[t] = "get_miss"
    /\ lock' = [lock EXCEPT ![getShard(frame[t].key)] = RUnlock(@, t)]
    /\ frame' = [frame EXCEPT ![t].value = <<>>, ![t].found = FALSE]
    /\ pc' = [pc EXCEPT ![t] = "done"]
    /\ lin' = Returned(lin, t, frame, <<"miss">>)
    /\ UNCHANGED <<items, evictList, entries, shardSize, totalSize, sizeLock,
                   mon, stamps, calls, ticks, lastPut, batch,
                   probe,
                   cacheVars>>

\* the key is there: shard.lock.RUnlock() (line 150)
GetRUnlock(t) ==
    /\ pc[t] = "get_runlock"
    /\ lock' = [lock EXCEPT ![getShard(frame[t].key)] = RUnlock(@, t)]
    /\ pc' = [pc EXCEPT ![t] = "get_lock"]
    /\ UNCHANGED <<items, evictList, entries, shardSize, totalSize, sizeLock,
                   frame, mon, stamps, calls, ticks, lastPut, batch,
                   lin, probe,
                   cacheVars>>

\* shard.lock.Lock() (line 151)
GetLock(t) ==
    /\ pc[t] = "get_lock"
    /\ LET s == getShard(frame[t].key)
       IN  /\ CanLock(lock[s])
           /\ lock' = [lock EXCEPT ![s].writer = {t}]
    /\ pc' = [pc EXCEPT ![t] = "get_promote"]
    /\ UNCHANGED <<items, evictList, entries, shardSize, totalSize, sizeLock,
                   frame, mon, stamps, calls, ticks, lastPut, batch,
                   lin, probe,
                   cacheVars>>

\* the timestamp, MoveToFront, the read of entry.value and Unlock (lines 154-159);
\* element is not used after this
GetPromote(t) ==
    /\ pc[t] = "get_promote"
    /\ LET s == getShard(frame[t].key)
           element == frame[t].element
       IN  /\ stamps' = [stamps EXCEPT ![s] = Touch(@, element)]
           /\ evictList' = [evictList EXCEPT ![s] = MoveToFront(@, element)]
           /\ frame' = [frame EXCEPT ![t].value = entries[element].value,
                                     ![t].element = Nil]
           /\ lock' = [lock EXCEPT ![s].writer = {}]
           /\ entries' = Collect(entries, Reachable(items, evictList', frame'))
    /\ pc' = [pc EXCEPT ![t] = "get_rlock2"]
    /\ UNCHANGED <<items, shardSize, totalSize, sizeLock, mon, calls, ticks, lastPut, batch,
                   lin, probe,
                   cacheVars>>

\* shard.lock.RLock() again (line 160)
GetRLock2(t) ==
    /\ pc[t] = "get_rlock2"
    /\ LET s == getShard(frame[t].key)
       IN  /\ CanRLock(lock[s])
           /\ lock' = [lock EXCEPT ![s].readers = @ \cup {t}]
    /\ pc' = [pc EXCEPT ![t] = "get_ret"]
    /\ UNCHANGED <<items, evictList, entries, shardSize, totalSize, sizeLock,
                   frame, mon, stamps, calls, ticks, lastPut, batch,
                   lin, probe,
                   cacheVars>>

\* return value, true, and the deferred RUnlock (lines 143, 162)
GetRet(t) ==
    /\ pc[t] = "get_ret"
    /\ lock' = [lock EXCEPT ![getShard(frame[t].key)] = RUnlock(@, t)]
    /\ frame' = [frame EXCEPT ![t].found = TRUE]
    /\ pc' = [pc EXCEPT ![t] = "done"]
    /\ lin' = Returned(lin, t, frame, <<"hit", frame[t].value>>)
    /\ UNCHANGED <<items, evictList, entries, shardSize, totalSize, sizeLock,
                   mon, stamps, calls, ticks, lastPut, batch,
                   probe,
                   cacheVars>>

\* the handler has answered: the goroutine is free for the next request
Return(t) ==
    /\ pc[t] = "done"
    /\ pc' = [pc EXCEPT ![t] = "idle"]
    /\ frame' = [frame EXCEPT ![t] = NoFrame]
    /\ UNCHANGED <<items, evictList, entries, shardSize, totalSize, lock,
                   sizeLock, mon, stamps, calls, ticks, lastPut, batch,
                   lin, probe,
                   cacheVars>>

(***************************************************************************)
(* evictOne, EvictBatch and the monitor.                                   *)
(***************************************************************************)
\* the front of the list, the most recently used element
Newest(list) == list[1]

\* the element evictOne removes: the back of the list
Victim(list) == Back(list)

\* the bytes of the key and the value alone
PayloadSize(entry) == entry.size - EntryOverhead

\* the bytes evictOne reports freed for the entry it removed
FreedSize(entry) == entry.size

\* perShard := count / NumShards, at least 1
\* the quotient alone, which is 0 for a count below the number of shards
Quotient(count) == count \div NumShards

\* the count itself taken for the share of one shard
WholeCount(count) == IF count < 1 THEN 1 ELSE count

PerShard(count) == IF count \div NumShards < 1 THEN 1 ELSE count \div NumShards

\* memUsage >= MemoryThreshold for m.Alloc = alloc.  alloc / MaxMemoryBytes is
\* compared with ThresholdNum / ThresholdDen exactly; the floating-point
\* quotient differs from the exact one by less than the distance of any
\* alloc / MaxMemoryBytes to 0.7, so it decides the same.
\* the threshold rounded down to whole bytes
ThresholdFloor == ThresholdNum * (MaxMemoryBytes \div ThresholdDen)

ThresholdBytes ==
    ThresholdNum * (MaxMemoryBytes \div ThresholdDen)
        + (ThresholdNum * (MaxMemoryBytes % ThresholdDen) + ThresholdDen - 1)
              \div ThresholdDen

\* a comparison that lets the threshold itself pass
StrictlyAbove(alloc) == alloc > ThresholdBytes

UnderPressure(alloc) == alloc >= ThresholdBytes

AllocSamples == {ThresholdBytes - 1, ThresholdBytes}

NoMon ==
    [alloc |-> 0, count |-> 0, i |-> 0, j |-> 0, perShard |-> 0,
     shardFreed |-> 0, totalFreed |-> 0]

NoBatch ==
    [held |-> {}, lost |-> [s \in Shards |-> 0], bytes |-> 0, taken |-> 0,
     before |-> <<>>, total |-> 0]

\* a tick of the ticker: CheckMemory reads m.Alloc (lines 227-231, 244-245)
Tick(alloc) ==
    /\ pc[Monitor] = "idle"
    /\ ticks < MaxTicks
    /\ ticks' = ticks + 1
    /\ mon' = [NoMon EXCEPT !.alloc = alloc]
    /\ pc' = [pc EXCEPT ![Monitor] = "check"]
    /\ UNCHANGED <<items, evictList, entries, shardSize, totalSize, lock,
                   sizeLock, frame, stamps, calls, lastPut,
                   batch, lin, probe,
                   cacheVars>>

\* a tick of the ticker as it is in the running process, which ticks for as
\* long as the process lives (lines 242-245)
TickOn(alloc) ==
    /\ pc[Monitor] = "idle"
    /\ mon' = [NoMon EXCEPT !.alloc = alloc]
    /\ pc' = [pc EXCEPT ![Monitor] = "check"]
    /\ UNCHANGED <<items, evictList, entries, shardSize, totalSize, lock,
                   sizeLock, frame, stamps, calls, ticks, lastPut, batch,
                   lin, probe,
                   cacheVars>>

\* the comparison with the threshold; under pressure EvictBatch(EvictionBatchSize)
\* starts (lines 233-237, 198-204)
Check ==
    /\ pc[Monitor] = "check"
    /\ IF UnderPressure(mon.alloc)
       THEN /\ mon' = [mon EXCEPT !.count = EvictionBatchSize,
                                      !.perShard = PerShard(EvictionBatchSize)]
            /\ pc' = [pc EXCEPT ![Monitor] = "ev_lock"]
            /\ batch' = [NoBatch EXCEPT
                             !.held = {s \in Shards : DOMAIN items[s] # {}}]
       ELSE /\ mon' = NoMon
            /\ pc' = [pc EXCEPT ![Monitor] = "idle"]
            /\ UNCHANGED batch
    /\ UNCHANGED <<items, evictList, entries, shardSize, totalSize, lock,
                   sizeLock, frame, stamps, calls, ticks, lastPut,
                   lin, probe,
                   cacheVars>>

\* the shards as EvictBatch finds them: per shard the keys, most recently
\* used first, each with its entry's recorded size
Contents ==
    [s \in Shards |->
        [i \in 1..Len(evictList[s]) |->
            <<CHOOSE k \in DOMAIN items[s] : items[s][k] = evictList[s][i],
              entries[evictList[s][i]].size>>]]

\* EvictBatch(count) called on its own, while no Put and no Get runs
\* (lines 197-204)
EvictBatchCall(count) ==
    /\ pc[Monitor] = "idle"
    /\ \A t \in Workers : pc[t] = "idle"
    /\ ticks < MaxTicks
    /\ ticks' = ticks + 1
    /\ mon' = [NoMon EXCEPT !.count = count, !.perShard = PerShard(count)]
    /\ pc' = [pc EXCEPT ![Monitor] = "ev_lock"]
    /\ batch' = [NoBatch EXCEPT !.held = {s \in Shards : DOMAIN items[s] # {}},
                                !.before = Contents, !.total = totalSize]
    /\ UNCHANGED <<items, evictList, entries, shardSize, totalSize, lock,
                   sizeLock, frame, stamps, calls, lastPut, lin, probe,
                   cacheVars>>

\* shard.lock.Lock() for shard i, which holds entries (lines 207-210)
EvLock ==
    /\ pc[Monitor] = "ev_lock"
    /\ CanLock(lock[mon.i])
    /\ Len(evictList[mon.i]) > 0
    /\ lock' = [lock EXCEPT ![mon.i].writer = {Monitor}]
    /\ mon' = [mon EXCEPT !.shardFreed = 0, !.j = 0]
    /\ pc' = [pc EXCEPT ![Monitor] = "ev_loop"]
    /\ UNCHANGED <<items, evictList, entries, shardSize, totalSize, sizeLock,
                   frame, stamps, calls, ticks, lastPut, batch,
                   lin, probe,
                   cacheVars>>

\* shard i is empty: Lock, the inner loop's test fails at once, Unlock
\* (lines 207-215); nothing is written between the two, so they are one step
EvLockEmpty ==
    /\ pc[Monitor] = "ev_lock"
    /\ CanLock(lock[mon.i])
    /\ Len(evictList[mon.i]) = 0
    /\ mon' = [mon EXCEPT !.shardFreed = 0, !.j = 0]
    /\ pc' = [pc EXCEPT ![Monitor] = "ev_total"]
    /\ UNCHANGED <<items, evictList, entries, shardSize, totalSize, lock,
                   sizeLock, frame, stamps, calls, ticks, lastPut, batch,
                   lin, probe,
                   cacheVars>>

\* one turn of the inner loop: shardFreed += shard.evictOne() (lines 211-212,
\* 169-194).  evictOne deletes the key the map scan finds for the element
EvictOne ==
    /\ pc[Monitor] = "ev_loop"
    /\ mon.j < mon.perShard
    /\ Len(evictList[mon.i]) > 0
    /\ LET s == mon.i
           element == Victim(evictList[s])
           found == {k \in DOMAIN items[s] : items[s][k] = element}
           freedSize == FreedSize(entries[element])
       IN  /\ evictList' = [evictList EXCEPT ![s] = Remove(@, element)]
           /\ stamps' = [stamps EXCEPT ![s] = Without(@, element)]
           /\ \E deleted \in (IF found = {} THEN {{}} ELSE {{k} : k \in found}) :
                  /\ items' = [items EXCEPT ![s] = Delete(@, deleted)]
                  /\ lastPut' = Forget(lastPut, deleted)
                  /\ frame' = Disturb(frame, deleted)
                  /\ lin' = Evicted(lin, s, deleted, frame)
           /\ shardSize' = [shardSize EXCEPT ![s] = @ - freedSize]
           /\ mon' = [mon EXCEPT !.shardFreed = @ + freedSize, !.j = @ + 1]
           /\ entries' = Collect(entries, Reachable(items', evictList', frame))
           /\ batch' = [batch EXCEPT !.lost[s] = @ + 1,
                                     !.bytes = @ + entries[element].size]
    /\ UNCHANGED <<totalSize, lock, sizeLock, pc, calls, ticks, probe,
                   cacheVars>>

\* the inner loop is over: shard.lock.Unlock() (line 215)
EvUnlock ==
    /\ pc[Monitor] = "ev_loop"
    /\ ~(mon.j < mon.perShard /\ Len(evictList[mon.i]) > 0)
    /\ lock' = [lock EXCEPT ![mon.i].writer = {}]
    /\ pc' = [pc EXCEPT ![Monitor] = "ev_total"]
    /\ UNCHANGED <<items, evictList, entries, shardSize, totalSize, sizeLock,
                   frame, mon, stamps, calls, ticks, lastPut, batch,
                   lin, probe,
                   cacheVars>>

\* c.sizeLock.Lock(); c.totalSize -= shardFreed; totalFreed += shardFreed;
\* c.sizeLock.Unlock(); i++ (lines 206, 217-220), one step: the monitor takes
\* the size lock when it is free and gives it back without waiting for anything.
\* After the last shard EvictBatch returns totalFreed
EvTotal ==
    /\ pc[Monitor] = "ev_total"
    /\ sizeLock = {}
    /\ totalSize' = totalSize - mon.shardFreed
    /\ mon' = [mon EXCEPT !.totalFreed = @ + mon.shardFreed, !.i = @ + 1]
    /\ pc' = [pc EXCEPT ![Monitor] =
                 IF mon.i + 1 < NumShards THEN "ev_lock" ELSE "done"]
    /\ batch' = [batch EXCEPT !.taken = @ + (totalSize - totalSize')]
    /\ UNCHANGED <<items, evictList, entries, shardSize, lock, sizeLock, frame,
                   stamps, calls, ticks, lastPut, lin, probe,
                   cacheVars>>

\* CheckMemory returns; the goroutine waits for the next tick (lines 223, 244)
MonReturn ==
    /\ pc[Monitor] = "done"
    /\ pc' = [pc EXCEPT ![Monitor] = "idle"]
    /\ mon' = NoMon
    /\ batch' = NoBatch
    /\ UNCHANGED <<items, evictList, entries, shardSize, totalSize, lock,
                   sizeLock, frame, stamps, calls, ticks, lastPut,
                   lin, probe,
                   cacheVars>>

(***************************************************************************)
(* main.go: the capacity-bounded Cache.  Its list is container/list's      *)
(* ring: a root and the elements, each with a next and a prev pointer, and *)
(* the len field.  An element that is not in the list has nil pointers.    *)
(***************************************************************************)
\* the root of the ring (&l.root), which is no element
Root == MaxCapacity + 1

ElemIds == 1..MaxCapacity

Nodes == ElemIds \cup {Root}

\* list.New()
ListNew ==
    [next |-> [n \in Nodes |-> IF n = Root THEN Root ELSE Nil],
     prev |-> [n \in Nodes |-> IF n = Root THEN Root ELSE Nil],
     len  |-> 0]

\* the statements of container/list's move(e, at) and insert(e, at), one by
\* one: e.prev.next = e.next; e.next.prev = e.prev; e.prev = at;
\* e.next = at.next; e.prev.next = e; e.next.prev = e
MoveStatement(l, e, at, i) ==
    CASE i = 1 -> [l EXCEPT !.next[l.prev[e]] = l.next[e]]
      [] i = 2 -> [l EXCEPT !.prev[l.next[e]] = l.prev[e]]
      [] i = 3 -> [l EXCEPT !.prev[e] = at]
      [] i = 4 -> [l EXCEPT !.next[e] = l.next[at]]
      [] i = 5 -> [l EXCEPT !.next[l.prev[e]] = e]
      [] i = 6 -> [l EXCEPT !.prev[l.next[e]] = e]

MoveStatements == 6

RECURSIVE RunStatements(_, _, _, _, _)
RunStatements(l, e, at, from, to) ==
    IF from > to THEN l
    ELSE RunStatements(MoveStatement(l, e, at, from), e, at, from + 1, to)

\* a victim choice that takes the latest used element
ListFront(l) == IF l.len = 0 THEN Nil ELSE l.next[Root]

\* Back(): the element before the root
ListBack(l) == IF l.len = 0 THEN Nil ELSE l.prev[Root]

\* MoveToFront returns at once for the front element
ListMoveToFront(l, e) ==
    IF l.next[Root] = e THEN l ELSE RunStatements(l, e, Root, 1, MoveStatements)

\* PushFront: insert(e, &l.root), the last four statements of a move, and len++
ListPushFront(l, e) ==
    [RunStatements(l, e, Root, 3, MoveStatements) EXCEPT !.len = @ + 1]

\* Remove: unlink e, clear its pointers, len--
ListRemove(l, e) ==
    LET u == RunStatements(l, e, Root, 1, 2)
    IN  [u EXCEPT !.next[e] = Nil, !.prev[e] = Nil, !.len = @ - 1]

\* the len nodes after the root, front first
RECURSIVE Forward(_, _, _)
Forward(l, n, k) ==
    IF k = 0 THEN <<>> ELSE <<l.next[n]>> \o Forward(l, l.next[n], k - 1)

\* the len nodes before the root, back first
RECURSIVE Backward(_, _, _)
Backward(l, n, k) ==
    IF k = 0 THEN <<>> ELSE <<l.prev[n]>> \o Backward(l, l.prev[n], k - 1)

\* line 48: the cache is full
AtCapacity(length, cap) == length >= cap

\* the element a new entry gets: none of the index's elements
NewCacheElement(index) ==
    CHOOSE e \in ElemIds :
        /\ \A k \in DOMAIN index : index[k] # e
        /\ \A d \in 1..(e - 1) : \E k \in DOMAIN index : index[k] = d

\* the locals of a call; removed is history: the keys a Put took out of the index
NoRequest ==
    [op |-> "none", key |-> <<>>, value |-> <<>>, entry |-> Nil, stmt |-> 0,
     found |-> FALSE, result |-> <<>>, panicked |-> FALSE, removed |-> {}]

\* NewCache(c) (lines 28-34), and no request under way
CacheNew(c) ==
    /\ cache = <<>>
    /\ lruList = ListNew
    /\ cell = <<>>
    /\ capacity = c
    /\ mu = Unlocked
    /\ gpc = [g \in Workers |-> "idle"]
    /\ gframe = [g \in Workers |-> NoRequest]
    /\ gcalls = 0
    /\ recency = <<>>

(***************************************************************************)
(* The specification: NewShardedCache, then the goroutines' steps.         *)
(***************************************************************************)
\* the ASCII strings "A", "a" (one shard), "B" (the next shard)
Keys == {<<65>>, <<97>>, <<66>>}

\* "x", "yz"
Values == {<<120>>, <<121, 122>>}

Cold ==
    /\ items = [s \in Shards |-> <<>>]
    /\ evictList = [s \in Shards |-> <<>>]
    /\ entries = <<>>
    /\ shardSize = [s \in Shards |-> 0]
    /\ totalSize = 0
    /\ lock = [s \in Shards |-> Unlocked]
    /\ sizeLock = {}
    /\ pc = [t \in Threads |-> "idle"]
    /\ frame = [t \in Workers |-> NoFrame]
    /\ mon = NoMon
    /\ stamps = [s \in Shards |-> <<>>]
    /\ calls = 0
    /\ ticks = 0
    /\ lastPut = <<>>
    /\ batch = NoBatch

Init == Cold /\ lin = NoLin /\ probe = NoProbe /\ CacheNew(MaxCapacity)

WorkerStep(t, K, V) ==
    \/ \E key \in K, value \in V : PutCall(t, key, value)
    \/ PutLock(t)
    \/ PutSizeLock(t)
    \/ PutTotal(t)
    \/ PutUnlock(t)
    \/ \E key \in K : GetCall(t, key)
    \/ GetRLock(t)
    \/ GetMiss(t)
    \/ GetRUnlock(t)
    \/ GetLock(t)
    \/ GetPromote(t)
    \/ GetRLock2(t)
    \/ GetRet(t)
    \/ Return(t)

MonitorStep ==
    \/ \E alloc \in AllocSamples : Tick(alloc)
    \/ Check
    \/ EvLock
    \/ EvLockEmpty
    \/ EvictOne
    \/ EvUnlock
    \/ EvTotal
    \/ MonReturn

Next ==
    \/ \E t \in Workers : WorkerStep(t, Keys, Values)
    \/ MonitorStep

Spec == Init /\ [][Next]_vars

(***************************************************************************)
(* The same program, started from a cache that is in use: the state after  *)
(* Put("A", "x"), Put("a", "yz"), Put("!", "x"), Put("AB", "x") (all four  *)
(* in shard 1, "A" the least recently used) and Put("B", "x") (shard 2)    *)
(* have run one after the other.                                           *)
(***************************************************************************)
Warm ==
    /\ items = [s \in Shards |->
                   CASE s = getShard(<<65>>) ->
                          (<<65>> :> 1) @@ (<<97>> :> 2) @@ (<<33>> :> 3)
                              @@ (<<65, 66>> :> 4)
                     [] s = getShard(<<66>>) -> (<<66>> :> 5)
                     [] OTHER -> <<>>]
    /\ evictList = [s \in Shards |->
                       CASE s = getShard(<<65>>) -> <<4, 3, 2, 1>>
                         [] s = getShard(<<66>>) -> <<5>>
                         [] OTHER -> <<>>]
    /\ stamps = evictList
    /\ entries = <<[value |-> <<120>>, size |-> EntrySize(<<65>>, <<120>>)],
                   [value |-> <<121, 122>>, size |-> EntrySize(<<97>>, <<121, 122>>)],
                   [value |-> <<120>>, size |-> EntrySize(<<33>>, <<120>>)],
                   [value |-> <<120>>, size |-> EntrySize(<<65, 66>>, <<120>>)],
                   [value |-> <<120>>, size |-> EntrySize(<<66>>, <<120>>)]>>
    /\ shardSize = [s \in Shards |->
                       CASE s = getShard(<<65>>) ->
                              entries[1].size + entries[2].size + entries[3].size
                                  + entries[4].size
                         [] s = getShard(<<66>>) -> entries[5].size
                         [] OTHER -> 0]
    /\ totalSize = entries[1].size + entries[2].size + entries[3].size
                       + entries[4].size + entries[5].size
    /\ lock = [s \in Shards |-> Unlocked]
    /\ sizeLock = {}
    /\ pc = [t \in Threads |-> "idle"]
    /\ frame = [t \in Workers |-> NoFrame]
    /\ mon = NoMon
    /\ calls = 0
    /\ ticks = 0
    /\ lastPut = (<<65>> :> <<120>>) @@ (<<97>> :> <<121, 122>>)
                     @@ (<<33>> :> <<120>>) @@ (<<65, 66>> :> <<120>>)
                     @@ (<<66>> :> <<120>>)
    /\ batch = NoBatch

InitWarm == Warm /\ lin = NoLin /\ probe = NoProbe /\ CacheNew(MaxCapacity)

\* the keys the callers use on the warm cache: "A" and "a" are stored, "C" is not
KeysWarm == {<<65>>, <<97>>, <<67>>}

NextWarm ==
    \/ \E t \in Workers : WorkerStep(t, KeysWarm, Values)
    \/ MonitorStep

SpecWarm == InitWarm /\ [][NextWarm]_vars

(***************************************************************************)
(* The warm cache with the history of calls and answers kept.              *)
(***************************************************************************)
\* the sequential cache a quiet cache stands for
Abstraction ==
    [s \in Shards |->
        [i \in 1..Len(evictList[s]) |->
            <<CHOOSE k \in DOMAIN items[s] : items[s][k] = evictList[s][i],
              entries[evictList[s][i]].value>>]]

InitLin ==
    /\ Warm
    /\ lin = [on |-> TRUE,
              configs |-> {[abs |-> Abstraction, ops |-> [t \in Workers |-> <<>>]]}]
    /\ probe = NoProbe
    /\ CacheNew(MaxCapacity)

\* the callers use the two oldest keys of shard 1
KeysLin == {<<65>>, <<97>>}

NextLin ==
    \/ \E t \in Workers : WorkerStep(t, KeysLin, Values)
    \/ MonitorStep

SpecLin == InitLin /\ [][NextLin]_vars

\* the steps of a Get that has been called
GetRun(t) ==
    \/ GetRLock(t)
    \/ GetMiss(t)
    \/ GetRUnlock(t)
    \/ GetLock(t)
    \/ GetPromote(t)
    \/ GetRLock2(t)
    \/ GetRet(t)
    \/ Return(t)

(***************************************************************************)
(* Put, Get and the monitor side by side on keys of two shards, with a     *)
(* scheduler that lets every goroutine that can take a step take one.      *)
(***************************************************************************)
KeysFair == {<<65>>, <<66>>}

ValuesFair == {<<120>>}

\* the steps of a Put or a Get that has been called
Run(t) ==
    \/ PutLock(t)
    \/ PutSizeLock(t)
    \/ PutTotal(t)
    \/ PutUnlock(t)
    \/ GetRun(t)

\* the steps of the monitor after a tick
MonitorRun ==
    \/ Check
    \/ EvLock
    \/ EvLockEmpty
    \/ EvictOne
    \/ EvUnlock
    \/ EvTotal
    \/ MonReturn

NextFair ==
    \/ \E t \in Workers : \E key \in KeysFair, value \in ValuesFair :
           PutCall(t, key, value)
    \/ \E t \in Workers : \E key \in KeysFair : GetCall(t, key)
    \/ \E t \in Workers : Run(t)
    \/ \E alloc \in AllocSamples : Tick(alloc)
    \/ MonitorRun

SpecFair ==
    /\ Init
    /\ [][NextFair]_vars
    /\ WF_vars(MonitorRun)
    /\ \A t \in Workers : WF_vars(Run(t))

(***************************************************************************)
(* The warm cache under sustained pressure: every tick samples usage at or *)
(* above the threshold, callers only read, and the scheduler lets every    *)
(* goroutine that can run do so.                                           *)
(***************************************************************************)
PressureSamples == {ThresholdBytes, MaxMemoryBytes}

\* the callers read the least recently used key
KeysPressure == {<<65>>}

MonitorOn ==
    \/ \E alloc \in PressureSamples : TickOn(alloc)
    \/ Check
    \/ EvLock
    \/ EvLockEmpty
    \/ EvictOne
    \/ EvUnlock
    \/ EvTotal
    \/ MonReturn

NextPressure ==
    \/ \E t \in Workers : \E key \in KeysPressure : GetCall(t, key)
    \/ \E t \in Workers : GetRun(t)
    \/ MonitorOn

SpecPressure ==
    /\ InitWarm
    /\ [][NextPressure]_vars
    /\ WF_vars(MonitorOn)
    /\ \A t \in Workers : WF_vars(GetRun(t))

(***************************************************************************)
(* EvictBatch called with a count of the caller's choice, on the empty     *)
(* cache and on the warm one, after Puts and Gets and with none under way. *)
(***************************************************************************)
BatchCounts ==
    {0, 1, NumShards, 2 * NumShards, EvictionBatchSize, 5 * NumShards}

InitBatch == (Cold \/ Warm) /\ lin = NoLin /\ probe = NoProbe /\ CacheNew(MaxCapacity)

NextBatch ==
    \/ \E t \in Workers : pc[Monitor] = "idle" /\ WorkerStep(t, KeysWarm, Values)
    \/ \E count \in BatchCounts : EvictBatchCall(count)
    \/ EvLock
    \/ EvLockEmpty
    \/ EvictOne
    \/ EvUnlock
    \/ EvTotal
    \/ MonReturn

SpecBatch == InitBatch /\ [][NextBatch]_vars

(***************************************************************************)
(* Callers at the limits of the length check: keys and values of one byte, *)
(* of the maximum length, and of one byte more.                            *)
(***************************************************************************)
KeysBoundary == {<<97>>, Str(MaxKeySize, 97), Str(MaxKeySize + 1, 97)}

ValuesBoundary == {<<120>>, Str(MaxValueSize, 120), Str(MaxValueSize + 1, 120)}

NextBoundary == \E t \in Workers : WorkerStep(t, KeysBoundary, ValuesBoundary)

SpecBoundary == Init /\ [][NextBoundary]_vars

(***************************************************************************)
(* The partitioner on its own: a key is handed to it, twice.               *)
(***************************************************************************)
RECURSIVE StringsUpTo(_, _)
StringsUpTo(n, alphabet) ==
    IF n = 0 THEN {<<>>}
    ELSE LET shorter == StringsUpTo(n - 1, alphabet)
         IN  shorter \cup {Append(w, c) : w \in shorter, c \in alphabet}

\* "8M<N:K97;11LG": its rolling hash is the least int64, whose negation wraps
\* to itself
MinHashKey == <<56, 77, 60, 78, 58, 75, 57, 55, 59, 49, 49, 76, 71>>

\* short strings over a small alphabet, and strings long enough for the
\* rolling hash to wrap around
\* "zzzzzzzzzzzzza": its rolling hash has wrapped to a negative number
NegHashKey == Append(Str(13, 122), 97)

HashKeys ==
    StringsUpTo(MaxHashLen, {0, 97, 122, 255})
        \cup {MinHashKey, NegHashKey, Str(13, 122), Str(14, 122),
              Str(MaxKeySize, 97), Str(MaxKeySize, 122)}

InitHash ==
    /\ Cold
    /\ lin = NoLin
    /\ probe \in {[key |-> k, indexes |-> <<>>] : k \in HashKeys}
    /\ CacheNew(MaxCapacity)

\* one call of the partitioner (lines 75-85)
Partition ==
    /\ Len(probe.indexes) < 2
    /\ probe' = [probe EXCEPT !.indexes = Append(@, shardIndex(probe.key))]
    /\ UNCHANGED <<items, evictList, entries, shardSize, totalSize, lock,
                   sizeLock, pc, frame, mon, stamps, calls, ticks, lastPut,
                   batch, lin,
                   cacheVars>>

NextHash == Partition

SpecHash == InitHash /\ [][NextHash]_vars

(***************************************************************************)
(* main.go: Cache.Put and Cache.Get, statement by statement where another  *)
(* goroutine can run in between.                                           *)
(***************************************************************************)
\* the ASCII strings "A", "B", "C"
KeysCache == {<<65>>, <<66>>, <<67>>}

\* "x", "y"
ValuesCache == {<<120>>, <<121>>}

\* key becomes the latest used key
Used(order, key) == <<key>> \o SelectSeq(order, LAMBDA k : k # key)

\* the call of Put (line 37)
CachePutCall(g, key, value) ==
    /\ gpc[g] = "idle"
    /\ gcalls < MaxCacheCalls
    /\ gcalls' = gcalls + 1
    /\ gpc' = [gpc EXCEPT ![g] = "put_lock"]
    /\ gframe' = [gframe EXCEPT ![g] =
           [NoRequest EXCEPT !.op = "put", !.key = key, !.value = value]]
    /\ UNCHANGED <<cache, lruList, cell, capacity, mu, recency, shardedVars>>

\* c.mu.Lock() (line 38)
CachePutLock(g) ==
    /\ gpc[g] = "put_lock"
    /\ CanLock(mu)
    /\ mu' = [mu EXCEPT !.writer = {g}]
    /\ gpc' = [gpc EXCEPT ![g] = "put_body"]
    /\ UNCHANGED <<cache, lruList, cell, capacity, gframe, gcalls, recency, shardedVars>>

\* lines 41-58, under the exclusive lock.  The type assertion of line 51
\* panics when Back() is no element that holds a *CacheEntry.
CachePutBody(g) ==
    /\ gpc[g] = "put_body"
    /\ gpc' = [gpc EXCEPT ![g] = "put_unlock"]
    /\ LET key == gframe[g].key
           value == gframe[g].value
           full == AtCapacity(lruList.len, capacity)
           lruEntry == ListBack(lruList)
       IN  IF key \in DOMAIN cache
           THEN /\ cell' = [cell EXCEPT ![cache[key]].Value = value]
                /\ lruList' = ListMoveToFront(lruList, cache[key])
                /\ recency' = Used(recency, key)
                /\ UNCHANGED <<cache, gframe>>
           ELSE IF full /\ lruEntry \notin DOMAIN cell
           THEN /\ gframe' = [gframe EXCEPT ![g].panicked = TRUE]
                /\ UNCHANGED <<cache, lruList, cell, recency>>
           ELSE LET kept == IF full THEN DOMAIN cache \ {cell[lruEntry].Key}
                                    ELSE DOMAIN cache
                    index == [k \in kept |-> cache[k]]
                    list == IF full THEN ListRemove(lruList, lruEntry) ELSE lruList
                    element == NewCacheElement(index)
                IN  /\ cell' = [e \in {index[k] : k \in kept} \cup {element} |->
                                   IF e = element THEN [Key |-> key, Value |-> value]
                                   ELSE cell[e]]
                    /\ lruList' = ListPushFront(list, element)
                    /\ cache' = [k \in kept \cup {key} |->
                                    IF k = key THEN element ELSE index[k]]
                    /\ recency' = SelectSeq(Used(recency, key),
                                            LAMBDA k : k \in kept \cup {key})
                    /\ gframe' = [gframe EXCEPT ![g].removed = DOMAIN cache \ kept]
    /\ UNCHANGED <<capacity, mu, gcalls, shardedVars>>

\* the deferred c.mu.Unlock() and the return (lines 39, 60)
CachePutUnlock(g) ==
    /\ gpc[g] = "put_unlock"
    /\ mu' = [mu EXCEPT !.writer = {}]
    /\ gpc' = [gpc EXCEPT ![g] = "idle"]
    /\ gframe' = [gframe EXCEPT ![g] = NoRequest]
    /\ UNCHANGED <<cache, lruList, cell, capacity, gcalls, recency, shardedVars>>

\* the call of Get (line 64)
CacheGetCall(g, key) ==
    /\ gpc[g] = "idle"
    /\ gcalls < MaxCacheCalls
    /\ gcalls' = gcalls + 1
    /\ gpc' = [gpc EXCEPT ![g] = "get_rlock"]
    /\ gframe' = [gframe EXCEPT ![g] = [NoRequest EXCEPT !.op = "get", !.key = key]]
    /\ UNCHANGED <<cache, lruList, cell, capacity, mu, recency, shardedVars>>

\* c.mu.RLock() (line 65)
CacheGetRLock(g) ==
    /\ gpc[g] = "get_rlock"
    /\ CanRLock(mu)
    /\ mu' = [mu EXCEPT !.readers = @ \cup {g}]
    /\ gpc' = [gpc EXCEPT ![g] = "get_lookup"]
    /\ UNCHANGED <<cache, lruList, cell, capacity, gframe, gcalls, recency, shardedVars>>

\* entry, ok := c.cache[key] (line 68)
CacheGetLookup(g) ==
    /\ gpc[g] = "get_lookup"
    /\ IF gframe[g].key \in DOMAIN cache
       THEN /\ gframe' = [gframe EXCEPT ![g].entry = cache[gframe[g].key],
                                        ![g].found = TRUE]
            /\ gpc' = [gpc EXCEPT ![g] = "get_front"]
            /\ recency' = Used(recency, gframe[g].key)
       ELSE /\ gpc' = [gpc EXCEPT ![g] = "get_runlock"]
            /\ UNCHANGED <<gframe, recency>>
    /\ UNCHANGED <<cache, lruList, cell, capacity, mu, gcalls, shardedVars>>

\* c.lruList.MoveToFront(entry) (line 70): the test for the front element
CacheGetFront(g) ==
    /\ gpc[g] = "get_front"
    /\ IF lruList.next[Root] = gframe[g].entry
       THEN /\ gpc' = [gpc EXCEPT ![g] = "get_value"]
            /\ gframe' = gframe
       ELSE /\ gpc' = [gpc EXCEPT ![g] = "get_move"]
            /\ gframe' = [gframe EXCEPT ![g].stmt = 1]
    /\ UNCHANGED <<cache, lruList, cell, capacity, mu, gcalls, recency, shardedVars>>

\* c.lruList.MoveToFront(entry) (line 70): one statement of the move
CacheGetMove(g) ==
    /\ gpc[g] = "get_move"
    /\ lruList' = MoveStatement(lruList, gframe[g].entry, Root, gframe[g].stmt)
    /\ IF gframe[g].stmt = MoveStatements
       THEN /\ gpc' = [gpc EXCEPT ![g] = "get_value"]
            /\ gframe' = [gframe EXCEPT ![g].stmt = 0]
       ELSE /\ gpc' = gpc
            /\ gframe' = [gframe EXCEPT ![g].stmt = @ + 1]
    /\ UNCHANGED <<cache, cell, capacity, mu, gcalls, recency, shardedVars>>

\* entry.Value.(*CacheEntry).Value (line 71)
CacheGetValue(g) ==
    /\ gpc[g] = "get_value"
    /\ gframe' = [gframe EXCEPT ![g].result = cell[gframe[g].entry].Value]
    /\ gpc' = [gpc EXCEPT ![g] = "get_runlock"]
    /\ UNCHANGED <<cache, lruList, cell, capacity, mu, gcalls, recency, shardedVars>>

\* the deferred c.mu.RUnlock() and the return (lines 66, 71, 74)
CacheGetRUnlock(g) ==
    /\ gpc[g] = "get_runlock"
    /\ mu' = RUnlock(mu, g)
    /\ gpc' = [gpc EXCEPT ![g] = "idle"]
    /\ gframe' = [gframe EXCEPT ![g] = NoRequest]
    /\ UNCHANGED <<cache, lruList, cell, capacity, gcalls, recency, shardedVars>>

\* a goroutine goes on with the call it is in
CacheStep(g) ==
    \/ CachePutLock(g)
    \/ CachePutBody(g)
    \/ CachePutUnlock(g)
    \/ CacheGetRLock(g)
    \/ CacheGetLookup(g)
    \/ CacheGetFront(g)
    \/ CacheGetMove(g)
    \/ CacheGetValue(g)
    \/ CacheGetRUnlock(g)

CacheCall(g) ==
    \/ \E key \in KeysCache, value \in ValuesCache : CachePutCall(g, key, value)
    \/ \E key \in KeysCache : CacheGetCall(g, key)

InitCache ==
    /\ Cold
    /\ lin = NoLin
    /\ probe = NoProbe
    /\ \E c \in 1..MaxCapacity : CacheNew(c)

\* the handlers' goroutines call the Cache side by side (lines 82-110)
NextCache == \E g \in Workers : CacheCall(g) \/ CacheStep(g)

SpecCache == InitCache /\ [][NextCache]_vars

\* a sequential series of calls: a call begins when the one before has returned
NextSeq ==
    \E g \in Workers :
        \/ (\A h \in Workers : gpc[h] = "idle") /\ CacheCall(g)
        \/ CacheStep(g)

SpecSeq == InitCache /\ [][NextSeq]_vars

(***************************************************************************)
(* Properties.                                                             *)
(***************************************************************************)
RECURSIVE SumOver(_, _)
SumOver(f, S) ==
    IF S = {} THEN 0
    ELSE LET x == CHOOSE y \in S : TRUE IN f[x] + SumOver(f, S \ {x})

\* the bytes shard s's live entries record
LiveBytes(s) ==
    SumOver([k \in DOMAIN items[s] |-> entries[items[s][k]].size], DOMAIN items[s])

PutInProgress(t) ==
    pc[t] \in {"put_lock", "put_sizelock", "put_total", "put_unlock"}

EvictBatchInProgress == pc[Monitor] \in {"ev_lock", "ev_loop", "ev_total"}

\* C3: whenever no Put and no EvictBatch call is in progress (Gets may be),
\* totalSize is the sum, over all shards, of the sizes of the live entries
C3_TotalSizeIsSumOfLive ==
    ((\A t \in Workers : ~PutInProgress(t)) /\ ~EvictBatchInProgress)
        => totalSize = SumOver([s \in Shards |-> LiveBytes(s)], Shards)

\* C3's case: a Put and an EvictBatch have both run to their end, an entry is
\* live in the cache, and a Get stands between its two lock phases
C3_Witness ==
    /\ \A t \in Workers : ~PutInProgress(t)
    /\ ~EvictBatchInProgress
    /\ ticks > 0 /\ pc[Monitor] = "idle"
    /\ totalSize > 0
    /\ \E t \in Workers : pc[t] = "get_lock"

\* C7: the entry a Get is about to promote, having found it in the index and
\* taken the exclusive lock, is still in the shard's list: nothing took effect
\* on the shard between the lookup and the promotion
C7_GetPromotesListedEntry ==
    \A t \in Workers :
        pc[t] = "get_promote"
            => frame[t].element \in Elems(evictList[getShard(frame[t].key)])

\* C1: round trip.  A Get(key) called after a Put(key, value) has returned
\* success, with no other Put of the key and no eviction of the key taking
\* effect from that Put up to the Get's return, returns (value, true)
C1_RoundTrip ==
    \A t \in Workers :
        (pc[t] = "done" /\ frame[t].op = "get" /\ frame[t].expect # <<>>)
            => (frame[t].found /\ frame[t].value = frame[t].expect[1])

\* C1's case: such a Get has returned the two-byte value of the Put before it
C1_Witness ==
    \E t \in Workers :
        /\ pc[t] = "done" /\ frame[t].op = "get"
        /\ frame[t].expect = <<frame[t].value>>
        /\ frame[t].found /\ Len(frame[t].value) = 2

\* the step in which Put(key, v2) of worker t overwrites the entry of key
OverwriteStep(t) ==
    /\ pc[t] = "put_lock" /\ pc'[t] = "put_sizelock"
    /\ frame[t].key \in DOMAIN items[getShard(frame[t].key)]

Occurrences(list, e) == Cardinality({i \in 1..Len(list) : list[i] = e})

\* C5: a Put(k, v2) on a key that holds v1 leaves k's one entry in place, now
\* holding v2 with recorded size len(k) + len(v2) + 64, adds no entry, and
\* changes the shard's size, and then totalSize, by exactly len(v2) - len(v1)
C5_Overwrite ==
    [][\A t \in Workers :
        /\ OverwriteStep(t) =>
              LET key == frame[t].key
                  s == getShard(key)
                  v1 == entries[items[s][key]].value
                  v2 == frame[t].value
              IN  /\ DOMAIN items'[s] = DOMAIN items[s]
                  /\ Len(evictList'[s]) = Len(evictList[s])
                  /\ Occurrences(evictList'[s], items'[s][key]) = 1
                  /\ \A k \in DOMAIN items'[s] :
                         k # key => items'[s][k] # items'[s][key]
                  /\ entries'[items'[s][key]] =
                         [value |-> v2, size |-> Len(key) + Len(v2) + 64]
                  /\ shardSize'[s] - shardSize[s] = Len(v2) - Len(v1)
                  /\ frame'[t].size = Len(v2) - Len(v1)
        /\ (pc[t] = "put_sizelock" /\ pc'[t] = "put_total")
              => (frame'[t].size = frame[t].size /\ totalSize' = totalSize)
        /\ (pc[t] = "put_total" /\ pc'[t] = "put_unlock")
              => totalSize' - totalSize = frame[t].size
    ]_vars

\* C5's case: the second Put of a key has returned, with a value of another
\* length than the first one's, and the cache holds that single entry
C5_Witness ==
    \E t \in Workers :
        /\ pc[t] = "done" /\ frame[t].op = "put" /\ ~frame[t].err
        /\ calls = 2
        /\ frame[t].size \in {1, 0 - 1}
        /\ Cardinality(DOMAIN entries) = 1

\* a step of worker t's Get call
GetStep(t) ==
    \/ pc[t] = "idle" /\ pc'[t] = "get_rlock"
    \/ frame[t].op = "get" /\ pc'[t] # pc[t]

IsPermutation(a, b) ==
    /\ Len(a) = Len(b)
    /\ \A e \in Elems(a) \cup Elems(b) : Occurrences(a, e) = Occurrences(b, e)

Stored(key) == \E s \in Shards : key \in DOMAIN items[s]

\* C10: no step of a Get changes the stored keys, a stored value, an entry's
\* size, a shard's size or totalSize; the only step of a Get that changes a
\* recency list is the promotion of a hit, which reorders the list of the key's
\* shard; a Get that looks up a key that is not stored takes the miss path,
\* which returns found = false and changes no list
C10_GetReadOnly ==
    [][\A t \in Workers :
        GetStep(t) =>
            /\ items' = items
            /\ \A s \in Shards : \A k \in DOMAIN items[s] :
                   entries'[items[s][k]] = entries[items[s][k]]
            /\ shardSize' = shardSize
            /\ totalSize' = totalSize
            /\ \A s \in Shards :
                   /\ IsPermutation(evictList[s], evictList'[s])
                   /\ evictList'[s] # evictList[s]
                         => (pc[t] = "get_promote" /\ s = getShard(frame[t].key))
            /\ (pc[t] = "get_rlock" /\ ~Stored(frame[t].key))
                   => pc'[t] = "get_miss"
            /\ pc[t] = "get_miss"
                   => (pc'[t] = "done" /\ ~frame'[t].found
                         /\ evictList' = evictList)
    ]_vars

\* C10's cases: one Get has missed and another has promoted an entry that was
\* not at the front of its shard's list
C10_Witness ==
    /\ \E t \in Workers : pc[t] = "done" /\ frame[t].op = "get" /\ ~frame[t].found
    /\ \E t \in Workers :
          /\ pc[t] = "get_rlock2"
          /\ Len(evictList[getShard(frame[t].key)]) > 1
          /\ items[getShard(frame[t].key)][frame[t].key]
                 = evictList[getShard(frame[t].key)][1]

\* a step in which evictOne removes an entry of shard mon.i
EvictionStep == pc[Monitor] = "ev_loop" /\ mon'.j = mon.j + 1

\* C2: an eviction on a non-empty shard removes exactly one key, the live key
\* of that shard whose latest successful Put or Get hit is the oldest, and
\* keeps every other key
C2_EvictsLeastRecent ==
    [][EvictionStep =>
          LET s == mon.i
              oldest == stamps[s][Len(stamps[s])]
              gone == DOMAIN items[s] \ DOMAIN items'[s]
          IN  /\ Len(stamps[s]) > 0
              /\ gone = {k \in DOMAIN items[s] : items[s][k] = oldest}
              /\ Cardinality(gone) = 1
              /\ DOMAIN items'[s] \subseteq DOMAIN items[s]
              /\ \A k \in DOMAIN items'[s] : items'[s][k] = items[s][k]
              /\ \A r \in Shards \ {s} : items'[r] = items[r]
    ]_vars

\* C2's case: "A", "a", "!" were put in that order, Get("A") has returned a
\* hit, and the one eviction after it removed "a" and kept "A" and "!"
C2_Witness ==
    /\ pc[Monitor] = "ev_loop" /\ mon.i = getShard(<<65>>) /\ mon.j = 1
    /\ calls = 1
    /\ \E t \in Workers :
          /\ pc[t] = "done" /\ frame[t].op = "get" /\ frame[t].key = <<65>>
          /\ frame[t].found
    /\ DOMAIN items[getShard(<<65>>)] = {<<65>>, <<33>>, <<65, 66>>}

RECURSIVE SumLost(_, _)
SumLost(lost, S) ==
    IF S = {} THEN 0
    ELSE LET x == CHOOSE y \in S : TRUE IN lost[x] + SumLost(lost, S \ {x})

\* C8: a tick that samples usage at or above the threshold starts
\* EvictBatch(EvictionBatchSize); when the batch has run, every shard that
\* held an entry has lost at least one, at most EvictionBatchSize entries were
\* removed in all, and totalSize went down by the sum of the removed sizes
C8_EvictionUnderPressure ==
    [][/\ (pc[Monitor] = "check" /\ pc'[Monitor] # "check"
              /\ mon.alloc >= ThresholdBytes)
            => (pc'[Monitor] = "ev_lock" /\ mon'.i = 0)
       /\ (pc[Monitor] = "ev_total" /\ pc'[Monitor] = "done")
            => /\ \A s \in batch'.held : batch'.lost[s] >= 1
               /\ SumLost(batch'.lost, Shards) <= EvictionBatchSize
               /\ batch'.taken = batch'.bytes
               /\ mon'.totalFreed = batch'.bytes
    ]_vars

\* C8's case: a tick sampled usage exactly at the threshold and the batch has
\* run: the shard of four entries lost three, the shard of one lost it
C8_Witness ==
    /\ pc[Monitor] = "done"
    /\ mon.alloc = ThresholdBytes
    /\ batch.lost[getShard(<<65>>)] = 3
    /\ batch.lost[getShard(<<66>>)] = 1
    /\ batch.bytes > 0

\* a step of a Put call that the length check turned away
RejectedPutStep(t) ==
    \/ pc[t] = "idle" /\ frame'[t].op = "put" /\ frame'[t].err
    \/ frame[t].op = "put" /\ frame[t].err /\ pc'[t] # pc[t]

\* C4: Put takes a key and a value of up to 256 bytes each, and answers
\* success for them; it answers an error when the key or the value has 257
\* bytes or more, and no step of such a Put changes an index, a list, a
\* shard's size or totalSize
C4_ValidationBoundary ==
    [][\A t \in Workers :
        /\ (pc[t] = "idle" /\ frame'[t].op = "put") =>
               LET k == frame'[t].key
                   v == frame'[t].value
               IN  /\ (Len(k) <= 256 /\ Len(v) <= 256)
                        => (pc'[t] = "put_lock" /\ ~frame'[t].err)
                   /\ (Len(k) >= 257 \/ Len(v) >= 257)
                        => (pc'[t] = "done" /\ frame'[t].err)
        /\ (pc[t] = "put_unlock" /\ pc'[t] = "done") =>
               /\ ~frame'[t].err
               /\ frame[t].key \in DOMAIN items'[getShard(frame[t].key)]
        /\ RejectedPutStep(t) =>
               /\ items' = items /\ evictList' = evictList /\ entries' = entries
               /\ shardSize' = shardSize /\ totalSize' = totalSize
    ]_vars

\* C4's case: a Put of a 256-byte key with a 256-byte value has returned
\* success and the entry is stored; a Put whose key has 257 bytes has
\* returned the error
C4_Witness ==
    /\ \E t \in Workers :
          /\ pc[t] = "done" /\ frame[t].op = "put" /\ ~frame[t].err
          /\ Len(frame[t].key) = 256 /\ Len(frame[t].value) = 256
          /\ frame[t].key \in DOMAIN items[getShard(frame[t].key)]
          /\ totalSize = 256 + 256 + 64
    /\ \E t \in Workers :
          /\ pc[t] = "done" /\ frame[t].op = "put" /\ frame[t].err
          /\ Len(frame[t].key) = 257

\* C9: every index the partitioner returns lies in 0..31, and the calls with
\* one key return one index
C9_PartitionerRange ==
    \A i \in 1..Len(probe.indexes) :
        /\ probe.indexes[i] \in 0..(NumShards - 1)
        /\ probe.indexes[i] = probe.indexes[1]

\* C9's case: the partitioner has answered twice for the key whose rolling
\* hash is the least int64, which negation leaves negative
C9_Witness ==
    /\ probe.key = MinHashKey
    /\ Len(probe.indexes) = 2
    /\ IsNegative(RollingHash(WordOf(0), probe.key, 1, Len(probe.key)))
    /\ IsNegative(Negate(RollingHash(WordOf(0), probe.key, 1, Len(probe.key))))

\* no worker is inside a call
Quiet == \A t \in Workers : pc[t] \in {"idle", "done"}

\* C6: the answers given so far (Get's value and found flag, the keys evicted)
\* are those of some sequential order of the calls in which each call takes
\* effect between its call and its return, and when no call is under way the
\* contents and recency order of the shards are those of such an order
C6_Linearizable ==
    lin.on => /\ lin.configs # {}
              /\ Quiet => \E c \in lin.configs : c.abs = Abstraction

\* shard s's lock is not held exclusively
NotExclusive(s) == lock[s].writer = {}

\* C11: while a shard's lock is not held exclusively, its index maps the keys
\* one to one onto the elements of its list, and the list holds no element
\* twice
C11_IndexListBijection ==
    \A s \in Shards :
        NotExclusive(s) =>
            /\ \A k \in DOMAIN items[s] : Occurrences(evictList[s], items[s][k]) = 1
            /\ \A i \in 1..Len(evictList[s]) :
                   Cardinality({k \in DOMAIN items[s] :
                                   items[s][k] = evictList[s][i]}) = 1
            /\ Cardinality(DOMAIN items[s]) = Len(evictList[s])

\* C11's case: an eviction has removed the element a Get had looked up, the
\* batch has left the shard, which still holds an entry, and the Get has
\* gone through its promotion
C11_Witness ==
    \E t \in Workers :
        /\ pc[t] = "get_rlock2"
        /\ frame[t].key \notin DOMAIN items[getShard(frame[t].key)]
        /\ NotExclusive(getShard(frame[t].key))
        /\ batch.lost[getShard(frame[t].key)] > 0
        /\ Len(evictList[getShard(frame[t].key)]) > 0

\* the key of shard s that element e belongs to
KeyOf(s, e) == CHOOSE k \in DOMAIN items[s] : items[s][k] = e

\* C12: while a shard's lock is not held exclusively, its size is the sum of
\* the recorded sizes of its entries, and each entry's recorded size is
\* len(key) + len(value) + 64 for the value it holds
C12_ShardSizeIsSumOfEntries ==
    \A s \in Shards :
        NotExclusive(s) =>
            /\ shardSize[s] = LiveBytes(s)
            /\ \A k \in DOMAIN items[s] :
                   entries[items[s][k]].size
                       = Len(k) + Len(entries[items[s][k]].value) + 64

\* C12's case: a shard has lost an entry to an eviction and holds two, one of
\* them with the two-byte value a Put of this run wrote
C12_Witness ==
    \E s \in Shards :
        /\ NotExclusive(s)
        /\ batch.lost[s] > 0
        /\ Cardinality(DOMAIN items[s]) >= 2
        /\ \E k \in DOMAIN items[s] :
               /\ k \in DOMAIN lastPut
               /\ entries[items[s][k]].value # <<120>>
               /\ k # <<97>>

Min(a, b) == IF a < b THEN a ELSE b

Max(a, b) == IF a < b THEN b ELSE a

RECURSIVE SumSizes(_)
SumSizes(pairs) ==
    IF pairs = <<>> THEN 0 ELSE Head(pairs)[2] + SumSizes(Tail(pairs))

\* the entries of shard s that EvictBatch(count) is to remove: the last
\* min(n, max(1, floor(count / N))) of the n it found, the least recent ones
Quota(count) == Max(1, count \div 32)

Doomed(s, count) ==
    LET n == Len(batch.before[s])
    IN  SubSeq(batch.before[s], n - Min(n, Quota(count)) + 1, n)

Spared(s, count) ==
    LET n == Len(batch.before[s])
    IN  SubSeq(batch.before[s], 1, n - Min(n, Quota(count)))

\* C13: when EvictBatch(count), run with nothing else under way, is done,
\* each shard has lost exactly its min(n, max(1, floor(count / N))) least
\* recently used entries and keeps the others in their order, totalSize is
\* down by the sum of the removed entries' sizes, and that sum is returned;
\* on the empty cache 0 is returned and nothing has changed
C13_EvictBatchQuota ==
    (pc[Monitor] = "done" /\ batch.before # <<>>) =>
        /\ \A s \in Shards : Contents[s] = Spared(s, mon.count)
        /\ \A s \in Shards : batch.lost[s] = Len(Doomed(s, mon.count))
        /\ totalSize = batch.total
               - SumOver([s \in Shards |-> SumSizes(Doomed(s, mon.count))], Shards)
        /\ mon.totalFreed = batch.total - totalSize
        /\ (\A s \in Shards : batch.before[s] = <<>>)
               => (mon.totalFreed = 0 /\ totalSize = batch.total
                     /\ \A s \in Shards : items[s] = <<>> /\ shardSize[s] = 0)

\* C13's case: EvictBatch(64) is done on a cache whose shard 1 held four
\* entries and whose shard 2 held one: two and one were removed
C13_Witness ==
    /\ pc[Monitor] = "done"
    /\ batch.before # <<>>
    /\ mon.count = 64
    /\ Len(batch.before[1]) = 4 /\ batch.lost[1] = 2
    /\ Len(batch.before[2]) = 1 /\ batch.lost[2] = 1
    /\ mon.totalFreed > 0

\* C16 as stated: EvictBatch(count) has never removed more than count entries
C16_AtMostTargetCount ==
    pc[Monitor] \in {"ev_lock", "ev_loop", "ev_total", "done"}
        => SumLost(batch.lost, Shards) <= mon.count

\* C16, amended: EvictBatch(count) never removes more than
\* max(1, floor(count / N)) entries from one shard, so never more than
\* N * max(1, floor(count / N)) in all, which is at most count when count >= N
C16_AtMostQuotaPerShard ==
    pc[Monitor] \in {"ev_lock", "ev_loop", "ev_total", "done"} =>
        /\ \A s \in Shards : batch.lost[s] <= Max(1, mon.count \div 32)
        /\ SumLost(batch.lost, Shards) <= 32 * Max(1, mon.count \div 32)
        /\ mon.count >= 32 => SumLost(batch.lost, Shards) <= mon.count

\* C16's case: EvictBatch(1) is done and has removed two entries, one from
\* each of the two shards that held any
C16_Witness ==
    /\ pc[Monitor] = "done"
    /\ mon.count = 1
    /\ SumLost(batch.lost, Shards) = 2

\* alloc / MaxMemoryBytes >= ThresholdNum / ThresholdDen, that is
\* ThresholdDen * alloc >= ThresholdNum * MaxMemoryBytes, by quotient and
\* remainder of alloc by ThresholdNum so that no product leaves the integers
\* of the model checker
AtOrAboveThreshold(alloc) ==
    LET a == alloc \div ThresholdNum
        r == alloc % ThresholdNum
        f == (ThresholdDen * r) \div ThresholdNum
    IN  a >= (MaxMemoryBytes - f + ThresholdDen - 1) \div ThresholdDen

\* C14: the comparison that follows a tick's sample starts EvictBatch exactly
\* when the sampled fraction is at or above the threshold; below it the
\* monitor goes back to idle and no shard and no size has changed; no entry is
\* ever evicted in a tick whose sample was below the threshold
C14_MonitorThreshold ==
    [][/\ (pc[Monitor] = "check" /\ pc'[Monitor] # "check") =>
             /\ pc'[Monitor] = "ev_lock" <=> AtOrAboveThreshold(mon.alloc)
             /\ ~AtOrAboveThreshold(mon.alloc) =>
                    /\ pc'[Monitor] = "idle"
                    /\ items' = items /\ evictList' = evictList
                    /\ shardSize' = shardSize /\ totalSize' = totalSize
       /\ (pc[Monitor] \in {"ev_lock", "ev_loop", "ev_total"}
              /\ <<items, evictList, shardSize, totalSize>>'
                     # <<items, evictList, shardSize, totalSize>>
              /\ pc' = pc)
             => AtOrAboveThreshold(mon.alloc)
    ]_vars

\* C14's case: the one tick sampled usage below the threshold and is over;
\* the monitor is idle and the cache holds what it held
C14_Witness ==
    /\ ticks = 1 /\ pc[Monitor] = "idle"
    /\ calls = 0
    /\ Len(evictList[1]) = 4 /\ Len(evictList[2]) = 1
    /\ totalSize = shardSize[1] + shardSize[2]

\* no shard holds an entry
CacheEmpty == \A s \in Shards : items[s] = <<>> /\ evictList[s] = <<>>

\* C15: under sustained pressure every tick's comparison starts EvictBatch,
\* the monitor is idle again and again, having kept nothing of the tick
\* before, and with only Gets beside it the cache is empty in the end with
\* totalSize 0
C15_SustainedPressure ==
    /\ [][(pc[Monitor] = "check" /\ pc'[Monitor] # "check")
             => pc'[Monitor] = "ev_lock"]_vars
    /\ []<>(pc[Monitor] = "idle" /\ mon = NoMon)
    /\ <>[](CacheEmpty /\ totalSize = 0)

\* C15's case: the cache, whose fullest shard held more entries than one tick
\* evicts, has been emptied and the monitor is in a further tick
C15_Witness ==
    /\ CacheEmpty /\ totalSize = 0
    /\ pc[Monitor] = "ev_lock" /\ mon.i = 1
    /\ mon.alloc = MaxMemoryBytes

\* thread t stands before a lock that thread u holds
WaitsFor(t, u) ==
    \/ /\ t \in Workers /\ pc[t] \in {"put_lock", "get_lock"}
       /\ u \in lock[getShard(frame[t].key)].writer
                 \cup lock[getShard(frame[t].key)].readers
    \/ /\ t \in Workers /\ pc[t] \in {"get_rlock", "get_rlock2"}
       /\ u \in lock[getShard(frame[t].key)].writer
    \/ /\ t \in Workers /\ pc[t] = "put_sizelock"
       /\ u \in sizeLock
    \/ /\ t = Monitor /\ pc[t] = "ev_lock"
       /\ u \in lock[mon.i].writer \cup lock[mon.i].readers
    \/ /\ t = Monitor /\ pc[t] = "ev_total"
       /\ u \in sizeLock

\* thread t waits, directly or through others, for a lock it holds itself or
\* that a thread waiting for t holds
InWaitCycle(t) ==
    \E u, v \in Threads :
        \/ WaitsFor(t, t)
        \/ WaitsFor(t, u) /\ WaitsFor(u, t)
        \/ WaitsFor(t, u) /\ WaitsFor(u, v) /\ WaitsFor(v, t)

AllReturned == \A g \in Workers : gpc[g] = "idle"

\* the list's nodes, front first, and back first
FrontFirst == Forward(lruList, Root, lruList.len)

BackFirst == Backward(lruList, Root, lruList.len)

\* the ring is closed, holds len elements once each, and reads the same in
\* both directions
RingIntact ==
    /\ \A i \in 1..lruList.len : FrontFirst[i] \in DOMAIN cell
    /\ \A i, j \in 1..lruList.len : i # j => FrontFirst[i] # FrontFirst[j]
    /\ \A i \in 1..lruList.len : BackFirst[i] = FrontFirst[lruList.len + 1 - i]
    /\ lruList.next[IF lruList.len = 0 THEN Root ELSE FrontFirst[lruList.len]] = Root

\* C18: between the calls of a sequential series of Puts and Gets the Cache
\* holds at most capacity entries, the index and the list hold the same
\* keys (the list in the order of their last use), and a Put of a new key
\* into a full cache removes exactly the least recently used key, a Put of
\* an existing key none
C18_CapacityBoundedLRU ==
    /\ [](AllReturned =>
            /\ Cardinality(DOMAIN cache) <= capacity
            /\ lruList.len = Cardinality(DOMAIN cache)
            /\ RingIntact
            /\ \A k \in DOMAIN cache : cell[cache[k]].Key = k
            /\ [i \in 1..lruList.len |-> cell[FrontFirst[i]].Key] = recency)
    /\ [][\A g \in Workers :
            gpc[g] = "put_body" /\ gpc'[g] = "put_unlock" =>
                /\ ~gframe'[g].panicked
                /\ DOMAIN cache' =
                     IF gframe[g].key \in DOMAIN cache
                     THEN DOMAIN cache
                     ELSE IF Cardinality(DOMAIN cache) = capacity
                     THEN (DOMAIN cache \ {recency[Len(recency)]})
                              \cup {gframe[g].key}
                     ELSE DOMAIN cache \cup {gframe[g].key}]_vars

\* a Put of a new key has taken one key out of a full cache of the largest
\* capacity and has left the cache full
C18_Witness ==
    \E g \in Workers :
        /\ gpc[g] = "put_unlock"
        /\ capacity = MaxCapacity
        /\ Cardinality(gframe[g].removed) = 1
        /\ Cardinality(DOMAIN cache) = capacity
        /\ gframe[g].key \in DOMAIN cache
        /\ gframe[g].key \notin gframe[g].removed

(***************************************************************************)
(* main.go's Cache under concurrent calls.                                 *)
(***************************************************************************)
\* g has begun to rewrite the list's pointers and has not finished
Mutating(g) == gpc[g] = "get_move" /\ gframe[g].stmt > 1

\* the statement g runs next reads or writes the list
Accessing(g) == gpc[g] \in {"put_body", "get_front", "get_move"}

\* C19: no goroutine is in the middle of a mutation of the LRU list while
\* another reads or mutates the list, and no two Gets are in their
\* move-to-front at the same time
C19_ListAccessExclusive ==
    \A g, h \in Workers :
        g # h => /\ ~(Mutating(g) /\ Accessing(h))
                 /\ ~(gpc[g] = "get_move" /\ gpc[h] = "get_move")

====
